---- MODULE Spec2Model ----
(***************************************************************************)
(* Model of the Phase 1 ingestion pipeline of the health-policy assistant: *)
(*   scripts/chunker.py          ClauseAwareChunker (clause packing)       *)
(*   scripts/embed_generator.py  EmbeddingGenerator (embedding attacher)   *)
(*   run_phase1.py               the orchestrator of the four stages       *)
(*                                                                         *)
(* Text is modelled as a sequence of atoms.  An atom is one sentence of    *)
(* the normalized text: `id' stands for its (distinct) characters, `tok'   *)
(* is what the tokenizer counts for it, `brk' is what precedes it in the   *)
(* text ("section": a "### SECTION: name ###" marker, "bullet": a newline  *)
(* followed by a bullet, numeral or table row head, "sentence": white      *)
(* space after a full stop) and `premium' says whether the sentence holds  *)
(* the words PREMIUM CHART or PREMIUM TABLE.                               *)
(***************************************************************************)
EXTENDS Integers, Sequences, FiniteSets, TLC

\* ------------------------------------------------------------------ bounds
MaxAtoms == 3
MaxTok == 2
MaxTarget == 2
MaxChunks == 3
MaxItems == 4
MaxTokens == 4

\* ------------------------------------------------------- program constants
DefaultOverlap == 100

VARIABLES
    \* --- ClauseAwareChunker
    target_size,      \* self.target_size
    overlap,          \* self.overlap
    nlTokens,         \* tokens the encoder spends on one "\n" of a join
    sections,         \* the argument of create_chunks
    si,               \* number of sections the outer loop has entered
    clauses,          \* clauses of the section being packed
    i,                \* number of clauses the inner loop has consumed
    current_chunk,    \* the buffer
    current_tokens,   \* its accumulated token count
    chunks,           \* the result list
    chunk_id,         \* the counter
    pc,               \* position in create_chunks / chunk
    \* --- EmbeddingGenerator
    skip_premium_tables,
    in_chunks,        \* chunks loaded from chunks.json
    ei,               \* number of chunks generate_all_embeddings has visited
    outcome,          \* per visited chunk: "skipped", "ok" or "failed"
    embeddings_data,  \* the result list
    emb_file,         \* embeddings.json
    meta_file,        \* chunks_metadata.json
    epc,              \* position in generate
    \* --- orchestrator
    env,              \* what exists before the run
    disk,             \* artifact -> "absent", "old" or "new"
    step,             \* number of stages started
    status,           \* exit status of each started stage
    snap,             \* the disk as each started stage left it
    log,              \* what the orchestrator printed
    exit_code,        \* the orchestrator's exit status once it has exited
    opc,              \* position in main
    \* --- ClauseAwareChunker.chunk, the files of the stage
    clean_file,       \* data/processed/policy_clean.txt
    chunks_file,      \* data/processed/chunks.json
    \* --- split_into_sections, character by character
    sp_text,          \* the argument of split_into_sections
    sp_parts,         \* the local `parts': what re.split returned
    pk,               \* number of parts the loop has consumed
    cur_section,      \* the local current_section
    cur_text,         \* the local current_text
    out_sections,     \* the result list
    spc,              \* position in split_into_sections
    \* --- TextCleaner.enhance_section_markers
    in_text,          \* the argument of enhance_section_markers
    en_text,          \* the local `text'
    applied,          \* number of patterns the loop has applied
    enpc              \* position in enhance_section_markers

chunkVars == <<target_size, overlap, nlTokens, sections, si, clauses, i,
               current_chunk, current_tokens, chunks, chunk_id, pc>>
embedVars == <<skip_premium_tables, in_chunks, ei, outcome, embeddings_data,
               emb_file, meta_file, epc>>
orchVars == <<env, disk, step, status, snap, log, exit_code, opc>>
stageVars == <<clean_file, chunks_file>>
splitVars == <<sp_text, sp_parts, pk, cur_section, cur_text, out_sections, spc>>
enhVars == <<in_text, en_text, applied, enpc>>
restVars == <<stageVars, splitVars, enhVars>>
vars == <<chunkVars, embedVars, orchVars, restVars>>

\* ------------------------------------------------------------ the tokenizer
RECURSIVE SumTok(_)
SumTok(atoms) ==
    IF atoms = <<>> THEN 0 ELSE Head(atoms).tok + SumTok(Tail(atoms))

\* count_tokens of one clause (sentences separated by white space)
count_tokens(clause) == SumTok(clause)

RECURSIVE SumClauses(_)
SumClauses(cs) ==
    IF cs = <<>> THEN 0 ELSE count_tokens(Head(cs)) + SumClauses(Tail(cs))

\* count_tokens('\n'.join(cs)): the clauses plus what each newline costs
count_tokens_joined(cs, nl) ==
    IF cs = <<>> THEN 0 ELSE SumClauses(cs) + nl * (Len(cs) - 1)

\* 'PREMIUM CHART' in text or 'PREMIUM TABLE' in text, for a sequence of atoms
HasPremiumMarker(atoms) == \E k \in 1..Len(atoms) : atoms[k].premium

\* the same test on '\n'.join(cs)
JoinedHasPremiumMarker(cs) == \E k \in 1..Len(cs) : HasPremiumMarker(cs[k])

\* ------------------------------------------------------ split_into_sections
\* the names the k-th, (k+1)-th, ... markers of a text carry (the markers
\* preserve_structure inserts)
SectionNames == <<"KEY POINTS", "EXCLUSIONS", "CLAIMS PROCESS", "FAQs",
                  "PLAN DETAILS">>

RECURSIVE SplitLoop(_, _, _, _, _)
SplitLoop(text, current_section, current_text, markers, acc) ==
    IF text = <<>>
    THEN IF current_text # <<>>
         THEN Append(acc, [section |-> current_section, text |-> current_text])
         ELSE acc
    ELSE IF Head(text).brk = "section"
         THEN SplitLoop(Tail(text), SectionNames[markers + 1], <<Head(text)>>,
                        markers + 1,
                        IF current_text # <<>>
                        THEN Append(acc, [section |-> current_section,
                                          text |-> current_text])
                        ELSE acc)
         ELSE SplitLoop(Tail(text), current_section,
                        Append(current_text, Head(text)), markers, acc)

split_into_sections(text) == SplitLoop(text, "Introduction", <<>>, 0, <<>>)

\* --------------------------------------------------------- identify_clauses
\* re.split on the newline that precedes a bullet, numeral or row head
RECURSIVE SplitParts(_, _, _)
SplitParts(atoms, cur, acc) ==
    IF atoms = <<>>
    THEN IF cur # <<>> THEN Append(acc, cur) ELSE acc
    ELSE IF Head(atoms).brk = "bullet" /\ cur # <<>>
         THEN SplitParts(Tail(atoms), <<Head(atoms)>>, Append(acc, cur))
         ELSE SplitParts(Tail(atoms), Append(cur, Head(atoms)), acc)

\* re.split(r'(?<=[.!?])\s+(?=[A-Z])', part): one clause per sentence
Sentences(part) == [k \in 1..Len(part) |-> <<part[k]>>]

RECURSIVE SplitLong(_, _)
SplitLong(parts, target) ==
    IF parts = <<>> THEN <<>>
    ELSE (IF count_tokens(Head(parts)) > target
          THEN Sentences(Head(parts))
          ELSE <<Head(parts)>>) \o SplitLong(Tail(parts), target)

identify_clauses(text, target) ==
    IF HasPremiumMarker(text)
    THEN SplitParts(text, <<>>, <<>>)
    ELSE SplitLong(SplitParts(text, <<>>, <<>>), target)

\* f"chunk_{chunk_id:04d}"
ChunkIdStr(n) ==
    [prefix |-> "chunk_",
     digits |-> <<n \div 1000, (n \div 100) % 10, (n \div 10) % 10, n % 10>>]

\* f"{a}-{b}"
ClauseIndexStr(a, b) == [from |-> a, dash |-> "-", to |-> b]


\* ------------------------------------------------------------ create_chunks
\* MakeChunk with the end of the clause_index range one too far
MakeChunkEndOffByOne(id, name, buf, from, to, nl) ==
    [chunk_id |-> ChunkIdStr(id),
     section |-> name,
     text |-> buf,
     token_count |-> count_tokens_joined(buf, nl),
     clause_index |-> ClauseIndexStr(from, to + 1)]

\* one chunk record, as both chunks.append calls build it
MakeChunk(id, name, buf, from, to, nl) ==
    [chunk_id |-> ChunkIdStr(id),
     section |-> name,
     text |-> buf,
     token_count |-> count_tokens_joined(buf, nl),
     clause_index |-> ClauseIndexStr(from, to)]

\* NewBuffer that forgets the overlap clause
NewBufferNoCarry(buf, clause, ov) == <<clause>>

\* the buffer a close starts the next chunk with
NewBuffer(buf, clause, ov) ==
    IF ov > 0 /\ Len(buf) > 0
    THEN <<buf[Len(buf)], clause>>
    ELSE <<clause>>

\* its accumulated token count
NewTokens(buf, clause, ov, nl) ==
    IF ov > 0 /\ Len(buf) > 0
    THEN count_tokens_joined(<<buf[Len(buf)], clause>>, nl)
    ELSE count_tokens(clause)

\* the close condition of the packing loop
MustClose(tokens, clause, buf, target) ==
    tokens + count_tokens(clause) > target /\ buf # <<>>

\* StartSection that restarts the id counter in every section
StartSectionResetsId ==
    /\ pc = "section"
    /\ si < Len(sections)
    /\ si' = si + 1
    /\ clauses' = identify_clauses(sections[si + 1].text, target_size)
    /\ current_chunk' = <<>>
    /\ current_tokens' = 0
    /\ i' = 0
    /\ chunk_id' = 0
    /\ pc' = "clause"
    /\ UNCHANGED <<target_size, overlap, nlTokens, sections, chunks>>

\* StartSection that keeps the buffer of the section before
StartSectionKeepsBuffer ==
    /\ pc = "section"
    /\ si < Len(sections)
    /\ si' = si + 1
    /\ clauses' = identify_clauses(sections[si + 1].text, target_size)
    /\ i' = 0
    /\ pc' = "clause"
    /\ UNCHANGED <<target_size, overlap, nlTokens, sections, chunks, chunk_id,
                   current_chunk, current_tokens>>

\* for section_data in sections: ... clauses = self.identify_clauses(...)
StartSection ==
    /\ pc = "section"
    /\ si < Len(sections)
    /\ si' = si + 1
    /\ clauses' = identify_clauses(sections[si + 1].text, target_size)
    /\ current_chunk' = <<>>
    /\ current_tokens' = 0
    /\ i' = 0
    /\ pc' = "clause"
    /\ UNCHANGED <<target_size, overlap, nlTokens, sections, chunks, chunk_id>>

\* one iteration of the inner loop, the branch that closes the buffer
CloseChunk ==
    /\ pc = "clause"
    /\ i < Len(clauses)
    /\ MustClose(current_tokens, clauses[i + 1], current_chunk, target_size)
    /\ chunks' = Append(chunks,
                        MakeChunk(chunk_id, sections[si].section, current_chunk,
                                  i - Len(current_chunk), i - 1, nlTokens))
    /\ chunk_id' = chunk_id + 1
    /\ current_chunk' = NewBuffer(current_chunk, clauses[i + 1], overlap)
    /\ current_tokens' = NewTokens(current_chunk, clauses[i + 1], overlap, nlTokens)
    /\ i' = i + 1
    /\ UNCHANGED <<target_size, overlap, nlTokens, sections, si, clauses, pc>>

\* one iteration of the inner loop, the branch that appends to the buffer
AppendClause ==
    /\ pc = "clause"
    /\ i < Len(clauses)
    /\ ~MustClose(current_tokens, clauses[i + 1], current_chunk, target_size)
    /\ current_chunk' = Append(current_chunk, clauses[i + 1])
    /\ current_tokens' = current_tokens + count_tokens(clauses[i + 1])
    /\ i' = i + 1
    /\ UNCHANGED <<target_size, overlap, nlTokens, sections, si, clauses,
                   chunks, chunk_id, pc>>

\* "Save last chunk of section"
FlushSection ==
    /\ pc = "clause"
    /\ i = Len(clauses)
    /\ IF current_chunk # <<>>
       THEN /\ chunks' = Append(chunks,
                                MakeChunk(chunk_id, sections[si].section,
                                          current_chunk,
                                          Len(clauses) - Len(current_chunk),
                                          Len(clauses) - 1, nlTokens))
            /\ chunk_id' = chunk_id + 1
       ELSE UNCHANGED <<chunks, chunk_id>>
    /\ pc' = "section"
    /\ UNCHANGED <<target_size, overlap, nlTokens, sections, si, clauses, i,
                   current_chunk, current_tokens>>

\* ---------------------------------------------------- filter_premium_tables
MarkChunk(c) == c @@ [is_premium_table |-> JoinedHasPremiumMarker(c.text)]

filter_premium_tables(cs) == [k \in 1..Len(cs) |-> MarkChunk(cs[k])]

\* create_chunks returns; chunk() marks the premium-table chunks
FilterPremiumTables ==
    /\ pc = "section"
    /\ si = Len(sections)
    /\ chunks' = filter_premium_tables(chunks)
    /\ pc' = "done"
    /\ UNCHANGED <<target_size, overlap, nlTokens, sections, si, clauses, i,
                   current_chunk, current_tokens, chunk_id>>

\* ------------------------------------------------------------------ inputs
Breaks == {"section", "bullet", "sentence"}

\* a sentence before its place in the text is known
Sentence == [tok : 1..MaxTok, brk : Breaks, premium : BOOLEAN]

\* the sentences of a text, each with its own characters
WithIds(t) ==
    [k \in 1..Len(t) |->
        [id |-> k, tok |-> t[k].tok, brk |-> t[k].brk, premium |-> t[k].premium]]

OneMarker(t) == Cardinality({k \in 1..Len(t) : t[k].premium}) <= 1

\* normalized texts of n sentences, at most one of which holds the marker;
\* whatever precedes the first sentence opens no new clause
TextsOfLen(n) ==
    {t \in [1..n -> Sentence] :
        /\ n > 0 => t[1].brk = "bullet"
        /\ OneMarker(t)}

Overlaps == {0, DefaultOverlap}

\* a file that does not exist, and a file holding `content'
NoFile == [exists |-> FALSE, content |-> <<>>]
FileOf(content) == [exists |-> TRUE, content |-> content]

ChunkIdle ==
    /\ target_size = 0 /\ overlap = 0 /\ nlTokens = 0 /\ sections = <<>>
    /\ si = 0 /\ clauses = <<>> /\ i = 0 /\ current_chunk = <<>>
    /\ current_tokens = 0 /\ chunks = <<>> /\ chunk_id = 0 /\ pc = "idle"

EmbedIdle ==
    /\ skip_premium_tables = TRUE /\ in_chunks = <<>> /\ ei = 0
    /\ outcome = <<>> /\ embeddings_data = <<>> /\ emb_file = NoFile
    /\ meta_file = NoFile /\ epc = "idle"

Artifacts ==
    {"policy_raw.txt", "policy_clean.txt", "chunks.json", "embeddings.json",
     "chunks_metadata.json"}

OrchIdle ==
    /\ env = [pdf |-> FALSE, dotenv |-> FALSE, requirements |-> FALSE,
              api_key |-> FALSE]
    /\ disk = [a \in Artifacts |-> "absent"]
    /\ step = 0 /\ status = <<>> /\ snap = <<>> /\ log = <<>>
    /\ exit_code = 0 /\ opc = "idle"

StageIdle == clean_file = NoFile /\ chunks_file = NoFile

SplitIdle ==
    /\ sp_text = <<>> /\ sp_parts = <<>> /\ pk = 0 /\ cur_section = ""
    /\ cur_text = <<>> /\ out_sections = <<>> /\ spc = "idle"

EnhanceIdle ==
    in_text = <<>> /\ en_text = <<>> /\ applied = 0 /\ enpc = "idle"

RestIdle == StageIdle /\ SplitIdle /\ EnhanceIdle

\* ClauseAwareChunker(target_size, overlap) and the sections handed to
\* create_chunks
ChunkInit ==
    /\ \E n \in 0..MaxAtoms : \E t \in TextsOfLen(n) :
           sections = split_into_sections(WithIds(t))
    /\ target_size \in 1..MaxTarget
    /\ overlap \in Overlaps
    /\ nlTokens \in {0, 1}
    /\ si = 0 /\ clauses = <<>> /\ i = 0
    /\ current_chunk = <<>> /\ current_tokens = 0
    /\ chunks = <<>> /\ chunk_id = 0
    /\ pc = "section"
    /\ EmbedIdle /\ OrchIdle /\ RestIdle

ChunkNext ==
    \/ (StartSection /\ UNCHANGED <<embedVars, orchVars, restVars>>)
    \/ (CloseChunk /\ UNCHANGED <<embedVars, orchVars, restVars>>)
    \/ (AppendClause /\ UNCHANGED <<embedVars, orchVars, restVars>>)
    \/ (FlushSection /\ UNCHANGED <<embedVars, orchVars, restVars>>)
    \/ (FilterPremiumTables /\ UNCHANGED <<embedVars, orchVars, restVars>>)

SpecChunk == ChunkInit /\ [][ChunkNext]_vars


\* ------------------------------------------------- vocabulary of the claims
\* the position in `sections' of the section a chunk is labelled with
SecIdx(c) == CHOOSE s \in 1..Len(sections) : sections[s].section = c.section

\* the clause list create_chunks packs for section s
ClausesOf(s) == identify_clauses(sections[s].text, target_size)

\* section s has been packed and flushed
Flushed(s) == s < si \/ (s = si /\ pc \in {"section", "done"})

\* chunk k holds clause cl
Holds(k, cl) == \E j \in 1..Len(chunks[k].text) : chunks[k].text[j] = cl

\* the chunks that hold clause cl
Holders(cl) == {k \in 1..Len(chunks) : Holds(k, cl)}

Oversized(cl) == count_tokens(cl) > target_size

\* chunk k was closed by the packing loop (not by the end-of-section flush)
ClosedInLoop(k) ==
    chunks[k].clause_index.to + 1 < Len(ClausesOf(SecIdx(chunks[k])))

\* C1: a chunk's token count exceeds target_size only if the chunk holds a
\* clause whose own token count exceeds target_size (so a chunk made only of
\* clauses that fit never exceeds it).
C1_OnlyOversizedClauseExceeds ==
    \A k \in 1..Len(chunks) :
        chunks[k].token_count > target_size
            => \E j \in 1..Len(chunks[k].text) : Oversized(chunks[k].text[j])

\* C2: once the chunks are marked, every chunk of a section whose text holds a
\* premium-table marker is flagged is_premium_table, and holds clauses of that
\* section only.
C2_PremiumSectionAllFlagged ==
    pc = "done" =>
        \A k \in 1..Len(chunks) :
            HasPremiumMarker(sections[SecIdx(chunks[k])].text)
                => /\ chunks[k].is_premium_table
                   /\ \A j \in 1..Len(chunks[k].text) :
                          \E p \in 1..Len(ClausesOf(SecIdx(chunks[k]))) :
                              chunks[k].text[j] = ClausesOf(SecIdx(chunks[k]))[p]

\* C3: a chunk's clause_index is exactly the range of positions of the clauses
\* it holds; every clause of a flushed section is held by one chunk, or, with
\* overlap on, by at most two chunks that are consecutive; with overlap = 0
\* by exactly one.
C3_ClauseIndexCoversSection ==
    /\ \A k \in 1..Len(chunks) :
           LET c == chunks[k]
               cl == ClausesOf(SecIdx(c))
           IN  /\ 0 <= c.clause_index.from
               /\ c.clause_index.from <= c.clause_index.to
               /\ c.clause_index.to < Len(cl)
               /\ c.text = SubSeq(cl, c.clause_index.from + 1,
                                  c.clause_index.to + 1)
    /\ \A s \in 1..Len(sections) :
           Flushed(s) =>
               LET cl == ClausesOf(s)
               IN  \A p \in 1..Len(cl) :
                   LET h == Holders(cl[p])
                   IN  /\ Cardinality(h) \in {1, 2}
                       /\ overlap = 0 => Cardinality(h) = 1
                       /\ \A k1 \in h, k2 \in h : k1 - k2 \in {-1, 0, 1}

\* C3 witness: with overlap on, a finished run in which one clause is held by
\* two chunks and a section was cut into three chunks
C3_Witness ==
    /\ pc = "done"
    /\ overlap > 0
    /\ \E s \in 1..Len(sections) :
           /\ \E p \in 1..Len(ClausesOf(s)) :
                  Cardinality(Holders(ClausesOf(s)[p])) = 2
           /\ Cardinality({k \in 1..Len(chunks) : SecIdx(chunks[k]) = s}) >= 3

\* C4: when the loop closes a chunk, the next chunk of the section begins with
\* the closed chunk's last clause followed by the triggering clause if
\* overlap > 0, and with the triggering clause itself if overlap = 0.
C4_NextChunkBeginsWithOverlap ==
    \A k \in 1..(Len(chunks) - 1) :
        (chunks[k].section = chunks[k + 1].section /\ ClosedInLoop(k)) =>
            LET prev == chunks[k]
                next == chunks[k + 1]
                trigger == ClausesOf(SecIdx(prev))[prev.clause_index.to + 2]
            IN  IF overlap > 0
                THEN /\ Len(next.text) >= 2
                     /\ next.text[1] = prev.text[Len(prev.text)]
                     /\ next.text[2] = trigger
                ELSE next.text[1] = trigger

\* C4 witness: overlap on, a chunk closed by the loop and the chunk after it
C4_Witness ==
    /\ overlap > 0
    /\ \E k \in 1..(Len(chunks) - 1) :
           /\ chunks[k].section = chunks[k + 1].section
           /\ ClosedInLoop(k)
           /\ Len(chunks[k].text) >= 2
           /\ Len(chunks[k + 1].text) >= 2

\* C5: every clause of a flushed section whose own token count exceeds
\* target_size is emitted whole as a chunk by itself, and in no chunk together
\* with another clause.
C5_OversizedClauseAlone ==
    \A s \in 1..Len(sections) :
        Flushed(s) =>
            LET cl == ClausesOf(s)
            IN  \A p \in 1..Len(cl) :
                    Oversized(cl[p]) =>
                        /\ Holders(cl[p]) # {}
                        /\ \A k \in Holders(cl[p]) : chunks[k].text = <<cl[p]>>

\* C6: the k-th emitted chunk (from 0) carries the id number k, across all
\* sections, and the counter equals the number of chunks emitted.
C6_IdsSequential ==
    /\ chunk_id = Len(chunks)
    /\ \A k \in 1..Len(chunks) : chunks[k].chunk_id = ChunkIdStr(k - 1)

\* C6 witness: chunks of two sections, one of them closed by the loop
C6_Witness ==
    /\ pc = "done"
    /\ Len(chunks) >= 3
    /\ \E k \in 1..(Len(chunks) - 1) :
           chunks[k].section # chunks[k + 1].section
    /\ \E k \in 1..Len(chunks) : ClosedInLoop(k)

\* C7: every chunk holds clauses of the one section it is labelled with, and
\* chunks appear in section order.
C7_ChunkWithinOneSection ==
    /\ \A k \in 1..Len(chunks) :
           /\ \E s \in 1..Len(sections) : sections[s].section = chunks[k].section
           /\ SecIdx(chunks[k]) <= si
           /\ LET text == sections[SecIdx(chunks[k])].text
              IN  \A j \in 1..Len(chunks[k].text) :
                      \A a \in 1..Len(chunks[k].text[j]) :
                          \E b \in 1..Len(text) : text[b] = chunks[k].text[j][a]
    /\ \A k1 \in 1..Len(chunks), k2 \in 1..Len(chunks) :
           k1 < k2 => SecIdx(chunks[k1]) <= SecIdx(chunks[k2])
    /\ \A s \in 1..Len(sections) :
           Flushed(s) => \E k \in 1..Len(chunks) : SecIdx(chunks[k]) = s

\* C7 witness: with overlap on, a section cut into two chunks is followed by
\* a chunk of the next section
C7_Witness ==
    /\ overlap > 0
    /\ \E k \in 2..(Len(chunks) - 1) :
           /\ chunks[k - 1].section = chunks[k].section
           /\ chunks[k].section # chunks[k + 1].section


\* ======================================================= EmbeddingGenerator
\* what client.models.embed_content does for one call: it raises, or it
\* returns the vector of the text-embedding-004 model (never an empty one)
ProviderResults ==
    {[raised |-> TRUE, values |-> <<>>],
     [raised |-> FALSE, values |-> <<"f1", "f2">>]}

None == <<>>

\* generate_embedding: the vector, or None when the call raised
generate_embedding(r) == IF r.raised THEN None ELSE r.values

\* `if embedding:'
Truthy(e) == e # None /\ Len(e) > 0

\* the record generate_all_embeddings appends for a chunk
EmbeddingRecord(chunk, embedding) ==
    [chunk_id |-> chunk.chunk_id,
     section |-> chunk.section,
     token_count |-> chunk.token_count,
     embedding |-> embedding,
     embedding_dim |-> Len(embedding),
     is_premium_table |-> chunk.is_premium_table,
     priority |-> IF chunk.is_premium_table THEN "low" ELSE "high"]

\* one entry of chunks_metadata.json
MetadataRecord(e) ==
    [chunk_id |-> e.chunk_id,
     section |-> e.section,
     token_count |-> e.token_count,
     embedding_dim |-> e.embedding_dim]

\* the skip test of the loop
Skipped(chunk, skip) == skip /\ chunk.is_premium_table

\* loop iteration: "Skipping premium table chunk", continue
SkipChunk ==
    /\ epc = "loop"
    /\ ei < Len(in_chunks)
    /\ Skipped(in_chunks[ei + 1], skip_premium_tables)
    /\ ei' = ei + 1
    /\ outcome' = Append(outcome, "skipped")
    /\ UNCHANGED <<skip_premium_tables, in_chunks, embeddings_data, emb_file,
                   meta_file, epc>>

\* EmbedFailed that lets the provider's error end the loop
EmbedFailedAborts ==
    /\ epc = "loop"
    /\ ei < Len(in_chunks)
    /\ ~Skipped(in_chunks[ei + 1], skip_premium_tables)
    /\ \E r \in ProviderResults :
           /\ ~Truthy(generate_embedding(r))
           /\ outcome' = Append(outcome, "failed")
    /\ ei' = ei + 1
    /\ epc' = "raised"
    /\ UNCHANGED <<skip_premium_tables, in_chunks, embeddings_data, emb_file,
                   meta_file>>

\* loop iteration: the provider call returns a vector, a record is appended
EmbedOk ==
    /\ epc = "loop"
    /\ ei < Len(in_chunks)
    /\ ~Skipped(in_chunks[ei + 1], skip_premium_tables)
    /\ \E r \in ProviderResults :
           /\ Truthy(generate_embedding(r))
           /\ embeddings_data' =
                  Append(embeddings_data,
                         EmbeddingRecord(in_chunks[ei + 1], generate_embedding(r)))
           /\ outcome' = Append(outcome, "ok")
    /\ ei' = ei + 1
    /\ UNCHANGED <<skip_premium_tables, in_chunks, emb_file, meta_file, epc>>

\* loop iteration: the provider call raises, "Failed to embed chunk"
EmbedFailed ==
    /\ epc = "loop"
    /\ ei < Len(in_chunks)
    /\ ~Skipped(in_chunks[ei + 1], skip_premium_tables)
    /\ \E r \in ProviderResults :
           /\ ~Truthy(generate_embedding(r))
           /\ outcome' = Append(outcome, "failed")
    /\ ei' = ei + 1
    /\ UNCHANGED <<skip_premium_tables, in_chunks, embeddings_data, emb_file,
                   meta_file, epc>>

\* save_embeddings: both files are written, then the statistics read
\* embeddings[0], which raises IndexError on an empty list
SaveEmbeddings ==
    /\ epc = "loop"
    /\ ei = Len(in_chunks)
    /\ emb_file' = FileOf(embeddings_data)
    /\ meta_file' = FileOf([k \in 1..Len(embeddings_data) |->
                               MetadataRecord(embeddings_data[k])])
    /\ epc' = IF Len(embeddings_data) = 0 THEN "raised" ELSE "complete"
    /\ UNCHANGED <<skip_premium_tables, in_chunks, ei, outcome, embeddings_data>>

\* the chunk lists chunks.json can hold: ids in sequence, any flags
RECURSIVE ChunkListsOfLen(_)
ChunkListsOfLen(n) ==
    IF n = 0 THEN {<<>>}
    ELSE {Append(l, [chunk_id |-> ChunkIdStr(n - 1),
                     section |-> "Introduction",
                     token_count |-> 1,
                     is_premium_table |-> f]) :
              l \in ChunkListsOfLen(n - 1), f \in BOOLEAN}

\* EmbeddingGenerator(skip_premium_tables) after load_chunks
EmbedInit ==
    /\ skip_premium_tables \in BOOLEAN
    /\ in_chunks \in UNION {ChunkListsOfLen(n) : n \in 0..MaxChunks}
    /\ ei = 0 /\ outcome = <<>> /\ embeddings_data = <<>>
    /\ emb_file = NoFile /\ meta_file = NoFile
    /\ epc = "loop"
    /\ ChunkIdle /\ OrchIdle /\ RestIdle

EmbedNext ==
    \/ (SkipChunk /\ UNCHANGED <<chunkVars, orchVars, restVars>>)
    \/ (EmbedOk /\ UNCHANGED <<chunkVars, orchVars, restVars>>)
    \/ (EmbedFailed /\ UNCHANGED <<chunkVars, orchVars, restVars>>)
    \/ (SaveEmbeddings /\ UNCHANGED <<chunkVars, orchVars, restVars>>)

SpecEmbed == EmbedInit /\ [][EmbedNext]_vars

\* the positions k <= n of the chunks whose provider call succeeded, in order
RECURSIVE OkIds(_)
OkIds(n) ==
    IF n = 0 THEN <<>>
    ELSE IF outcome[n] = "ok"
         THEN Append(OkIds(n - 1), in_chunks[n].chunk_id)
         ELSE OkIds(n - 1)

\* C8: the records are, in chunk order, exactly those of the chunks that were
\* not skipped and whose call succeeded; a chunk is skipped exactly when
\* skipping is on and it is flagged; and the loop visits every chunk whatever
\* failed before it.
C8_OneRecordPerEmbeddedChunk ==
    /\ Len(outcome) = ei
    /\ [j \in 1..Len(embeddings_data) |-> embeddings_data[j].chunk_id] = OkIds(ei)
    /\ \A k \in 1..ei :
           outcome[k] = "skipped"
               <=> Skipped(in_chunks[k], skip_premium_tables)
    /\ \A j1 \in 1..Len(embeddings_data), j2 \in 1..Len(embeddings_data) :
           embeddings_data[j1].chunk_id = embeddings_data[j2].chunk_id => j1 = j2
    /\ epc # "loop" => ei = Len(in_chunks)
    /\ emb_file.exists => emb_file.content = embeddings_data

\* C8 witness: a failed call between two successful ones, all files written
C8_Witness ==
    /\ epc = "complete"
    /\ \E k \in 2..(ei - 1) :
           /\ outcome[k] = "failed"
           /\ outcome[k - 1] = "ok"
           /\ outcome[k + 1] = "ok"
    /\ Len(emb_file.content) = Len(in_chunks) - 1

\* C9: whatever calls fail or are skipped among the chunks loaded (at least
\* one), generate writes both files and completes without raising.
C9_GenerateCompletes ==
    (epc # "loop" /\ Len(in_chunks) > 0) =>
        /\ epc = "complete"
        /\ emb_file.exists
        /\ meta_file.exists


\* ============================================================= run_phase1.py
\* the pipeline steps of main
steps ==
    <<[command |-> "python scripts/pdf_parser.py",
       description |-> "Step 1/4: PDF Parsing"],
      [command |-> "python scripts/text_cleaner.py",
       description |-> "Step 2/4: Text Cleaning"],
      [command |-> "python scripts/chunker.py",
       description |-> "Step 3/4: Clause-Aware Chunking"],
      [command |-> "python scripts/embed_generator.py",
       description |-> "Step 4/4: Embedding Generation"]>>

Outcome(exit, writes) == [exit |-> exit, writes |-> writes]

\* scripts/pdf_parser.py as a process: without the PDF it prints and returns;
\* PdfReader may raise; otherwise policy_raw.txt is written
PdfParserMain(e, d) ==
    IF ~e.pdf THEN {Outcome(0, {})}
    ELSE {Outcome(1, {}), Outcome(0, {"policy_raw.txt"})}

\* scripts/text_cleaner.py: load_raw_text raises without its input
TextCleanerMain(e, d) ==
    IF d["policy_raw.txt"] = "absent" THEN {Outcome(1, {})}
    ELSE {Outcome(0, {"policy_clean.txt"})}

\* scripts/chunker.py: load_clean_text raises without its input; save_chunks
\* writes chunks.json and then divides by the number of chunks
ChunkerMain(e, d) ==
    IF d["policy_clean.txt"] = "absent" THEN {Outcome(1, {})}
    ELSE {Outcome(0, {"chunks.json"}), Outcome(1, {"chunks.json"})}

\* scripts/embed_generator.py: without the key it prints and returns;
\* load_chunks raises without its input; save_embeddings writes both files
\* and then reads embeddings[0]
EmbedGeneratorMain(e, d) ==
    IF ~e.api_key THEN {Outcome(0, {})}
    ELSE IF d["chunks.json"] = "absent" THEN {Outcome(1, {})}
    ELSE {Outcome(0, {"embeddings.json", "chunks_metadata.json"}),
          Outcome(1, {"embeddings.json", "chunks_metadata.json"})}

\* what running steps[k].command can do
StageOutcomes(k, e, d) ==
    CASE k = 1 -> PdfParserMain(e, d)
      [] k = 2 -> TextCleanerMain(e, d)
      [] k = 3 -> ChunkerMain(e, d)
      [] OTHER -> EmbedGeneratorMain(e, d)

Written(d, writes) == [a \in Artifacts |-> IF a \in writes THEN "new" ELSE d[a]]

Line(msg, stage) == [msg |-> msg, stage |-> stage]

\* check_prerequisites
check_prerequisites(e) == e.pdf /\ e.dotenv /\ e.requirements

\* main: if not check_prerequisites(): sys.exit(1)
PrerequisitesNotMet ==
    /\ opc = "start"
    /\ ~check_prerequisites(env)
    /\ log' = Append(log, Line("Prerequisites not met!", ""))
    /\ exit_code' = 1
    /\ opc' = "exited"
    /\ UNCHANGED <<env, disk, step, status, snap>>

PrerequisitesMet ==
    /\ opc = "start"
    /\ check_prerequisites(env)
    /\ log' = Append(log, Line("All prerequisites met!", ""))
    /\ opc' = "loop"
    /\ UNCHANGED <<env, disk, step, status, snap, exit_code>>

\* loop iteration: run_command returns True
RunStageSucceeds ==
    /\ opc = "loop"
    /\ step < Len(steps)
    /\ \E o \in StageOutcomes(step + 1, env, disk) :
           /\ o.exit = 0
           /\ disk' = Written(disk, o.writes)
           /\ status' = Append(status, o.exit)
    /\ snap' = Append(snap, disk')
    /\ step' = step + 1
    /\ log' = log \o <<Line("START", steps[step + 1].description),
                       Line("SUCCESS", steps[step + 1].description)>>
    /\ UNCHANGED <<env, exit_code, opc>>

\* RunStageFails that goes on with the next step
RunStageFailsContinues ==
    /\ opc = "loop"
    /\ step < Len(steps)
    /\ \E o \in StageOutcomes(step + 1, env, disk) :
           /\ o.exit # 0
           /\ disk' = Written(disk, o.writes)
           /\ status' = Append(status, o.exit)
    /\ snap' = Append(snap, disk')
    /\ step' = step + 1
    /\ log' = log \o <<Line("START", steps[step + 1].description),
                       Line("FAILED", steps[step + 1].description)>>
    /\ UNCHANGED <<env, exit_code, opc>>

\* loop iteration: run_command returns False, "Pipeline failed at", sys.exit(1)
RunStageFails ==
    /\ opc = "loop"
    /\ step < Len(steps)
    /\ \E o \in StageOutcomes(step + 1, env, disk) :
           /\ o.exit # 0
           /\ disk' = Written(disk, o.writes)
           /\ status' = Append(status, o.exit)
    /\ snap' = Append(snap, disk')
    /\ step' = step + 1
    /\ log' = log \o <<Line("START", steps[step + 1].description),
                       Line("FAILED", steps[step + 1].description),
                       Line("Pipeline failed at:", steps[step + 1].description)>>
    /\ exit_code' = 1
    /\ opc' = "exited"
    /\ UNCHANGED env

\* the loop is over: success summary, main returns
SuccessSummary ==
    /\ opc = "loop"
    /\ step = Len(steps)
    /\ log' = Append(log, Line("PHASE 1 COMPLETE!", ""))
    /\ exit_code' = 0
    /\ opc' = "exited"
    /\ UNCHANGED <<env, disk, step, status, snap>>

\* the files and the environment a run can start from
OrchInit ==
    /\ env \in [pdf : BOOLEAN, dotenv : BOOLEAN, requirements : BOOLEAN,
                api_key : BOOLEAN]
    /\ disk \in [Artifacts -> {"absent", "old"}]
    /\ step = 0 /\ status = <<>> /\ snap = <<>> /\ log = <<>>
    /\ exit_code = 0
    /\ opc = "start"
    /\ ChunkIdle /\ EmbedIdle /\ RestIdle

OrchNext ==
    \/ (PrerequisitesNotMet /\ UNCHANGED <<chunkVars, embedVars, restVars>>)
    \/ (PrerequisitesMet /\ UNCHANGED <<chunkVars, embedVars, restVars>>)
    \/ (RunStageSucceeds /\ UNCHANGED <<chunkVars, embedVars, restVars>>)
    \/ (RunStageFails /\ UNCHANGED <<chunkVars, embedVars, restVars>>)
    \/ (SuccessSummary /\ UNCHANGED <<chunkVars, embedVars, restVars>>)

SpecOrch == OrchInit /\ [][OrchNext]_vars

\* the artifacts stage k produces
ArtifactsOf(k) ==
    CASE k = 1 -> {"policy_raw.txt"}
      [] k = 2 -> {"policy_clean.txt"}
      [] k = 3 -> {"chunks.json"}
      [] OTHER -> {"embeddings.json", "chunks_metadata.json"}

\* the descriptions of the stages the log shows as started, in order
StartedStages == SelectSeq(log, LAMBDA l : l.msg = "START")

\* C10: stages start in the order of `steps'; a stage starts only after every
\* stage before it exited zero; after the first non-zero exit the orchestrator
\* names that stage, starts no other, exits non-zero, and the artifacts of the
\* stages completed before it are as those stages left them.
C10_HaltsAtFirstFailure ==
    /\ Len(status) = step
    /\ step <= Len(steps)
    /\ Len(StartedStages) = step
    /\ \A k \in 1..step : StartedStages[k].stage = steps[k].description
    /\ \A k \in 1..step : \A j \in 1..(k - 1) : status[j] = 0
    /\ \A k \in 1..step :
           status[k] # 0 =>
               /\ opc = "exited"
               /\ exit_code # 0
               /\ step = k
               /\ log[Len(log)] = Line("Pipeline failed at:", steps[k].description)
               /\ \A j \in 1..(k - 1) : \A a \in ArtifactsOf(j) :
                      disk[a] = snap[j][a]
    /\ (opc = "exited" /\ exit_code = 0) =>
           (step = Len(steps) /\ \A k \in 1..step : status[k] = 0)

\* C10 witness: the third stage exits non-zero after two stages wrote their
\* artifacts
C10_Witness ==
    /\ opc = "exited"
    /\ status = <<0, 0, 1>>
    /\ disk["policy_raw.txt"] = "new"
    /\ disk["policy_clean.txt"] = "new"
    /\ disk["embeddings.json"] = "old"


\* C11: when the API key is not in the environment the orchestrator runs no
\* stage and, once it has exited, its exit status is non-zero.
C11_NoStageWithoutApiKey ==
    ~env.api_key =>
        /\ step = 0
        /\ opc # "loop"
        /\ opc = "exited" => exit_code # 0

\* C15: when the orchestrator has printed its success summary and exited
\* zero, every artifact of the pipeline was written during this run.
C15_SuccessMeansAllArtifactsWritten ==
    (opc = "exited" /\ exit_code = 0) =>
        /\ log[Len(log)] = Line("PHASE 1 COMPLETE!", "")
        /\ \A a \in Artifacts : disk[a] = "new"


\* ================================================ ClauseAwareChunker.chunk
\* load_clean_text raises FileNotFoundError
LoadCleanTextMissing ==
    /\ pc = "load"
    /\ ~clean_file.exists
    /\ pc' = "raised"
    /\ UNCHANGED <<target_size, overlap, nlTokens, sections, si, clauses, i,
                   current_chunk, current_tokens, chunks, chunk_id, stageVars>>

\* text = self.load_clean_text(); sections = self.split_into_sections(text)
LoadAndSplit ==
    /\ pc = "load"
    /\ clean_file.exists
    /\ sections' = split_into_sections(clean_file.content)
    /\ pc' = "section"
    /\ UNCHANGED <<target_size, overlap, nlTokens, si, clauses, i,
                   current_chunk, current_tokens, chunks, chunk_id, stageVars>>

\* save_chunks: json.dump, then the statistics divide by len(chunks)
SaveChunks ==
    /\ pc = "done"
    /\ chunks_file' = FileOf(chunks)
    /\ pc' = IF Len(chunks) = 0 THEN "raised" ELSE "complete"
    /\ UNCHANGED <<target_size, overlap, nlTokens, sections, si, clauses, i,
                   current_chunk, current_tokens, chunks, chunk_id, clean_file>>

\* the chunker stage started with or without the Normalizer's output
StageInit ==
    /\ \/ clean_file = NoFile
       \/ \E n \in 0..MaxAtoms : \E t \in TextsOfLen(n) :
              clean_file = FileOf(WithIds(t))
    /\ chunks_file = NoFile
    /\ target_size \in 1..MaxTarget
    /\ overlap \in Overlaps
    /\ nlTokens \in {0, 1}
    /\ sections = <<>>
    /\ si = 0 /\ clauses = <<>> /\ i = 0
    /\ current_chunk = <<>> /\ current_tokens = 0
    /\ chunks = <<>> /\ chunk_id = 0
    /\ pc = "load"
    /\ EmbedIdle /\ OrchIdle /\ SplitIdle /\ EnhanceIdle

StageRest == <<embedVars, orchVars, splitVars, enhVars>>

StageNext ==
    \/ (LoadCleanTextMissing /\ UNCHANGED StageRest)
    \/ (LoadAndSplit /\ UNCHANGED StageRest)
    \/ (StartSection /\ UNCHANGED <<stageVars, StageRest>>)
    \/ (CloseChunk /\ UNCHANGED <<stageVars, StageRest>>)
    \/ (AppendClause /\ UNCHANGED <<stageVars, StageRest>>)
    \/ (FlushSection /\ UNCHANGED <<stageVars, StageRest>>)
    \/ (FilterPremiumTables /\ UNCHANGED <<stageVars, StageRest>>)
    \/ (SaveChunks /\ UNCHANGED StageRest)

SpecChunkStage == StageInit /\ [][StageNext]_vars

\* C12: chunk raises only when policy_clean.txt is missing, and then before
\* chunks.json is written; with the input present it completes for any text
\* and chunks.json holds the chunk list, which may be empty.
C12_OnlyMissingInputFails ==
    /\ pc = "raised" => (~clean_file.exists /\ ~chunks_file.exists)
    /\ pc = "complete" => chunks_file = FileOf(chunks)


\* ==================================== split_into_sections, item by item
\* Here a text is a sequence of items: a "### SECTION: name ###" marker, a run
\* of white space, or a word (`id' stands for its characters).
MarkerNames == {"KEY POINTS", "EXCLUSIONS"}

ItemKinds == {"ws", "word"} \cup MarkerNames

ItemOf(kind, k) ==
    IF kind \in MarkerNames
    THEN [kind |-> "marker", name |-> kind, id |-> 0]
    ELSE [kind |-> kind, name |-> "", id |-> IF kind = "word" THEN k ELSE 0]

\* the texts of n items
ItemTextsOfLen(n) ==
    {[k \in 1..n |-> ItemOf(f[k], k)] : f \in [1..n -> ItemKinds]}

\* re.split(r'(### SECTION: [^#]+###)', text): the pieces between markers,
\* empty ones included, alternating with the markers
RECURSIVE ReSplit(_, _, _)
ReSplit(t, cur, acc) ==
    IF t = <<>> THEN Append(acc, [marker |-> FALSE, name |-> "", body |-> cur])
    ELSE IF Head(t).kind = "marker"
         THEN ReSplit(Tail(t), <<>>,
                      acc \o <<[marker |-> FALSE, name |-> "", body |-> cur],
                               [marker |-> TRUE, name |-> Head(t).name,
                                body |-> <<Head(t)>>]>>)
         ELSE ReSplit(Tail(t), Append(cur, Head(t)), acc)

\* str.strip()
RECURSIVE LStrip(_)
LStrip(t) ==
    IF t # <<>> /\ Head(t).kind = "ws" THEN LStrip(Tail(t)) ELSE t

RECURSIVE RStrip(_)
RStrip(t) ==
    IF t # <<>> /\ t[Len(t)].kind = "ws"
    THEN RStrip(SubSeq(t, 1, Len(t) - 1))
    ELSE t

Strip(t) == RStrip(LStrip(t))

\* "Save previous section" / "Add last section"
SaveSection(acc, name, t) ==
    IF Strip(t) # <<>>
    THEN Append(acc, [section |-> name, text |-> Strip(t)])
    ELSE acc

\* parts = re.split(...); current_section = "Introduction"; current_text = ""
SplitStart ==
    /\ spc = "start"
    /\ sp_parts' = ReSplit(sp_text, <<>>, <<>>)
    /\ cur_section' = "Introduction"
    /\ cur_text' = <<>>
    /\ spc' = "loop"
    /\ UNCHANGED <<sp_text, pk, out_sections>>

\* SplitMarkerPart that keeps the text gathered so far
SplitMarkerPartKeepsText ==
    /\ spc = "loop"
    /\ pk < Len(sp_parts)
    /\ sp_parts[pk + 1].marker
    /\ out_sections' = SaveSection(out_sections, cur_section, cur_text)
    /\ cur_section' = sp_parts[pk + 1].name
    /\ pk' = pk + 1
    /\ UNCHANGED <<sp_text, sp_parts, spc, cur_text>>

\* loop iteration: the part is a marker
SplitMarkerPart ==
    /\ spc = "loop"
    /\ pk < Len(sp_parts)
    /\ sp_parts[pk + 1].marker
    /\ out_sections' = SaveSection(out_sections, cur_section, cur_text)
    /\ cur_section' = sp_parts[pk + 1].name
    /\ cur_text' = <<>>
    /\ pk' = pk + 1
    /\ UNCHANGED <<sp_text, sp_parts, spc>>

\* loop iteration: the part is text
SplitTextPart ==
    /\ spc = "loop"
    /\ pk < Len(sp_parts)
    /\ ~sp_parts[pk + 1].marker
    /\ cur_text' = cur_text \o sp_parts[pk + 1].body
    /\ pk' = pk + 1
    /\ UNCHANGED <<sp_text, sp_parts, cur_section, out_sections, spc>>

\* "Add last section"; return sections
SplitAddLast ==
    /\ spc = "loop"
    /\ pk = Len(sp_parts)
    /\ out_sections' = SaveSection(out_sections, cur_section, cur_text)
    /\ spc' = "done"
    /\ UNCHANGED <<sp_text, sp_parts, pk, cur_section, cur_text>>

SplitInit ==
    /\ \E n \in 0..MaxItems : sp_text \in ItemTextsOfLen(n)
    /\ sp_parts = <<>> /\ pk = 0 /\ cur_section = "" /\ cur_text = <<>>
    /\ out_sections = <<>>
    /\ spc = "start"
    /\ ChunkIdle /\ EmbedIdle /\ OrchIdle /\ StageIdle /\ EnhanceIdle

SplitRest == <<chunkVars, embedVars, orchVars, stageVars, enhVars>>

SplitNext ==
    \/ (SplitStart /\ UNCHANGED SplitRest)
    \/ (SplitMarkerPart /\ UNCHANGED SplitRest)
    \/ (SplitTextPart /\ UNCHANGED SplitRest)
    \/ (SplitAddLast /\ UNCHANGED SplitRest)

SpecSplit == SplitInit /\ [][SplitNext]_vars

\* the items of t that are not markers / that are words
NoMarkers(t) == SelectSeq(t, LAMBDA x : x.kind # "marker")
Words(t) == SelectSeq(t, LAMBDA x : x.kind = "word")

\* the texts of the returned sections, concatenated in order
RECURSIVE ConcatTexts(_)
ConcatTexts(secs) ==
    IF secs = <<>> THEN <<>> ELSE Head(secs).text \o ConcatTexts(Tail(secs))

\* the name of the last marker before position p, or the leading section
NameAt(p) ==
    LET before == {q \in 1..(p - 1) : sp_text[q].kind = "marker"}
    IN  IF before = {} THEN "Introduction"
        ELSE sp_text[CHOOSE q \in before : \A r \in before : r <= q].name

\* C13 as stated: the section texts, concatenated in order, are the input
\* with its markers stripped.
C13_ConcatReconstructsInput ==
    spc = "done" => ConcatTexts(out_sections) = NoMarkers(sp_text)

\* C13 as amended: the words of the section texts, in order, are the words of
\* the input (none lost, none twice); each section's text is a marker-free
\* stretch of the input that begins and ends with a word, under the name of
\* the last marker before it or "Introduction"; only white space at the two
\* ends of a stretch between markers is missing.
C13_SectionsKeepAllWords ==
    spc = "done" =>
        /\ Words(ConcatTexts(out_sections)) = Words(sp_text)
        /\ \A s \in 1..Len(out_sections) :
               \E a \in 1..Len(sp_text), b \in 1..Len(sp_text) :
                   /\ a <= b
                   /\ out_sections[s].text = SubSeq(sp_text, a, b)
                   /\ sp_text[a].kind = "word"
                   /\ sp_text[b].kind = "word"
                   /\ \A q \in a..b : sp_text[q].kind # "marker"
                   /\ out_sections[s].section = NameAt(a)
                   /\ \A q \in 1..Len(sp_text) :
                          (sp_text[q].kind = "word" /\ (q < a \/ q > b)) =>
                              \E r \in (IF q < a THEN q..a ELSE b..q) :
                                  sp_text[r].kind = "marker"

\* C13 witness: text before the first marker and text after it, with white
\* space next to the marker, give two sections
C13_Witness ==
    /\ spc = "done"
    /\ Len(out_sections) = 2
    /\ out_sections[1].section = "Introduction"
    /\ \E q \in 2..(Len(sp_text) - 1) :
           /\ sp_text[q].kind = "marker"
           /\ sp_text[q - 1].kind = "ws"
    /\ ConcatTexts(out_sections) # NoMarkers(sp_text)


\* ================================== TextCleaner.enhance_section_markers
\* Here a text is a sequence of tokens: "open" is the "### SECTION: " that
\* begins a section marker, "close" the " ###" that ends it, "trigger" a
\* phrase one of the patterns matches, "topic" an inserted
\* "### TOPIC: T ###\n", "word" anything else.
patterns == <<"COVERAGE", "WAITING_PERIOD", "EXCLUSIONS", "BENEFITS", "CLAIMS">>

Topics == {patterns[k] : k \in 1..Len(patterns)}

Token(kind, topic) == [kind |-> kind, topic |-> topic]

InputTokens ==
    {Token("open", ""), Token("close", ""), Token("word", "")}
        \cup {Token("trigger", T) : T \in Topics}

\* every "open" begins a marker with a non-empty name and a "close" after it,
\* and every "close" ends one
WellMarked(t) ==
    /\ \A k \in 1..Len(t) : t[k].kind = "open" =>
           \E c \in (k + 2)..Len(t) :
               /\ t[c].kind = "close"
               /\ \A q \in (k + 1)..(c - 1) : t[q].kind \in {"word", "trigger"}
    /\ \A c \in 1..Len(t) : t[c].kind = "close" =>
           \E k \in 1..(c - 2) :
               /\ t[k].kind = "open"
               /\ \A q \in (k + 1)..(c - 1) : t[q].kind \in {"word", "trigger"}

EnhanceTextsOfLen(n) == {t \in [1..n -> InputTokens] : WellMarked(t)}

\* re.sub(f'(?<!### SECTION: )({pattern})', '### TOPIC: T ###\n\1', text):
\* every match not directly behind "### SECTION: " gets the topic marker
RECURSIVE Sub(_, _, _)
Sub(t, k, T) ==
    IF k > Len(t) THEN <<>>
    ELSE (IF /\ t[k] = Token("trigger", T)
             /\ ~(k > 1 /\ t[k - 1].kind = "open")
          THEN <<Token("topic", T), t[k]>>
          ELSE <<t[k]>>) \o Sub(t, k + 1, T)

\* for section_type, pattern in patterns.items(): text = re.sub(...)
EnhanceApply ==
    /\ enpc = "run"
    /\ applied < Len(patterns)
    /\ en_text' = Sub(en_text, 1, patterns[applied + 1])
    /\ applied' = applied + 1
    /\ UNCHANGED <<in_text, enpc>>

\* return text
EnhanceReturn ==
    /\ enpc = "run"
    /\ applied = Len(patterns)
    /\ enpc' = "done"
    /\ UNCHANGED <<in_text, en_text, applied>>

EnhanceInit ==
    /\ \E n \in 0..MaxTokens : in_text \in EnhanceTextsOfLen(n)
    /\ en_text = in_text
    /\ applied = 0
    /\ enpc = "run"
    /\ ChunkIdle /\ EmbedIdle /\ OrchIdle /\ StageIdle /\ SplitIdle

EnhanceRest == <<chunkVars, embedVars, orchVars, stageVars, splitVars>>

EnhanceNext ==
    \/ (EnhanceApply /\ UNCHANGED EnhanceRest)
    \/ (EnhanceReturn /\ UNCHANGED EnhanceRest)

SpecEnhance == EnhanceInit /\ [][EnhanceNext]_vars

\* position k of t lies inside a section marker
InMarker(t, k) ==
    \/ t[k].kind \in {"open", "close"}
    \/ \E o \in 1..(k - 1) :
           /\ t[o].kind = "open"
           /\ \A q \in (o + 1)..k : t[q].kind # "close"

\* C14: in the returned text each topic whose trigger occurs outside the
\* section markers has exactly one topic marker, immediately before the first
\* such occurrence; and no topic marker stands inside a section marker.
C14_TopicBeforeFirstOccurrenceOnly ==
    enpc = "done" =>
        /\ \A T \in Topics :
               LET occ == {k \in 1..Len(en_text) :
                               /\ en_text[k] = Token("trigger", T)
                               /\ ~InMarker(en_text, k)}
                   tags == {k \in 1..Len(en_text) :
                               en_text[k] = Token("topic", T)}
               IN  /\ occ = {} => tags = {}
                   /\ occ # {} =>
                          tags = {(CHOOSE k \in occ : \A q \in occ : k <= q) - 1}
        /\ \A k \in 1..Len(en_text) :
               en_text[k].kind = "topic" => ~InMarker(en_text, k)

====
